---- MODULE Spec2Model ----
(***************************************************************************)
(* A model of the hypothesis-testing engine hypors: every test function is *)
(* a pure computation from samples and parameters to Result<TestResult,    *)
(* error>.  The state is the last call made, what it returned, and the      *)
(* locals of the rank loop while a Mann-Whitney call is inside it.         *)
(*                                                                         *)
(* Numbers.  Sample values are small integers, for which the f64 sums,     *)
(* products and differences of the code are exact; quotients are kept as   *)
(* exact rationals <<n, d>>.  A value that the code obtains by dividing by *)
(* a square root (a test statistic, a margin of error) is kept as          *)
(* s * sqrt(q) with sign s and rational q, together with the IEEE special  *)
(* values NaN, +inf and -inf that a division by zero produces.             *)
(*                                                                         *)
(* Distributions.  Normal, StudentsT, ChiSquared and FisherSnedecor are    *)
(* the external distribution capability (statrs).  A call constructs its   *)
(* distribution and evaluates cdf at the statistic and inverse_cdf at      *)
(* alpha/2 and 1 - alpha/2.  The distribution a call obtains is any        *)
(* conformant one of its family: cdf non-decreasing with values in [0,1]   *)
(* (in units of 1/(2*PHalf)), symmetric about 0 for Normal and StudentsT,  *)
(* supported on x > 0 for ChiSquared and FisherSnedecor.                   *)
(***************************************************************************)
EXTENDS Integers, Sequences, FiniteSets, TLC

VARIABLES call, result, frame

vars == <<call, result, frame>>

(* ------------------------------ bounds --------------------------------- *)
MaxLen == 2
MaxVal == 1
PHalf == 2

(* ----------------------------- rationals ------------------------------- *)
Abs(x) == IF x < 0 THEN -x ELSE x

Sgn(x) == IF x < 0 THEN -1 ELSE IF x = 0 THEN 0 ELSE 1

RECURSIVE GCD(_, _)
GCD(a, b) == IF b = 0 THEN a ELSE GCD(b, a % b)

\* the rational n/d in lowest terms with a positive denominator (d # 0)
Rat(n, d) ==
    LET g == GCD(Abs(n), Abs(d))
    IN  <<(Sgn(d) * n) \div g, Abs(d) \div g>>

RInt(n) == <<n, 1>>

\* sums over the least common denominator, products after cross-cancelling:
\* the same rationals, with the intermediate integers kept small
RAdd(a, b) ==
    LET g == GCD(a[2], b[2])
    IN  Rat(a[1] * (b[2] \div g) + b[1] * (a[2] \div g), (a[2] \div g) * b[2])

RNeg(a) == <<-a[1], a[2]>>

RSub(a, b) == RAdd(a, RNeg(b))

RMul(a, b) ==
    LET g1 == GCD(Abs(a[1]), b[2])
        g2 == GCD(Abs(b[1]), a[2])
    IN  Rat((a[1] \div g1) * (b[1] \div g2), (a[2] \div g2) * (b[2] \div g1))

\* a / b for b # 0
RDiv(a, b) == RMul(a, Rat(b[2], b[1]))
RLess(a, b) == a[1] * b[2] < b[1] * a[2]
RLeq(a, b) == a[1] * b[2] <= b[1] * a[2]
RSgn(a) == Sgn(a[1])

RECURSIVE SumSeq(_)
SumSeq(s) == IF s = <<>> THEN 0 ELSE Head(s) + SumSeq(Tail(s))

RECURSIVE RSumSeq(_)
RSumSeq(s) == IF s = <<>> THEN RInt(0) ELSE RAdd(Head(s), RSumSeq(Tail(s)))

(* --------------- f64 values behind a square root or a zero division ----- *)
\* s * sqrt(q) for k = "fin" (s = 0 iff q = 0); NaN; s * infinity for k = "inf"
Fin(s, q) == [k |-> "fin", s |-> s, q |-> q]
NaN == [k |-> "nan", s |-> 0, q |-> RInt(0)]
Inf(s) == [k |-> "inf", s |-> s, q |-> RInt(0)]

FromRat(r) == Fin(RSgn(r), RMul(r, r))

\* f64::sqrt of a rational: NaN below zero
FSqrt(r) == IF RSgn(r) < 0 THEN NaN ELSE Fin(RSgn(r), r)

FNeg(x) == [x EXCEPT !.s = -x.s]

FAbsVal(x) == [x EXCEPT !.s = Abs(x.s)]

\* IEEE 754 product
FMul(x, y) ==
    IF x.k = "nan" \/ y.k = "nan" THEN NaN
    ELSE IF x.k = "inf" \/ y.k = "inf"
         THEN IF x.s = 0 \/ y.s = 0 THEN NaN ELSE Inf(x.s * y.s)
         ELSE Fin(x.s * y.s, RMul(x.q, y.q))

\* IEEE 754 quotient: 0/0 and inf/inf are NaN, x/0 is an infinity
FDiv(x, y) ==
    IF x.k = "nan" \/ y.k = "nan" THEN NaN
    ELSE IF x.k = "inf"
         THEN IF y.k = "inf" THEN NaN
              ELSE Inf(x.s * (IF y.s < 0 THEN -1 ELSE 1))
         ELSE IF y.k = "inf" THEN Fin(0, RInt(0))
              ELSE IF y.s = 0
                   THEN IF x.s = 0 THEN NaN ELSE Inf(x.s)
                   ELSE Fin(x.s * y.s, RDiv(x.q, y.q))

\* where a value lies on the real line
Class(x) ==
    IF x.k = "nan" THEN "nan"
    ELSE IF x.k = "inf" THEN (IF x.s > 0 THEN "pinf" ELSE "ninf")
         ELSE IF x.s > 0 THEN "pos" ELSE IF x.s < 0 THEN "neg" ELSE "zero"

\* center + m, the shape of a confidence bound
Aff(c, m) == [c |-> c, m |-> m]

\* a bound of 0.0 where no interval is defined
AffZeroBound == [c |-> RInt(0), m |-> Fin(0, RInt(0))]

\* f64::NAN as a confidence bound
AffNaN == [c |-> RInt(0), m |-> NaN]

(* ------------------- f64 arithmetic, bit for bit ------------------------ *)
\* For the numeric scenarios whose outcome depends on the rounding of f64.  A
\* natural number is the sequence of its digits in base 2^15, lowest first,
\* without leading zeros; an f64 is s * m * 2^e with sign s, odd natural m and
\* integer e, and every operation rounds its exact result to 53 significant
\* bits, ties to even.  Exponents of the values modelled stay far inside the
\* range of f64, so no result is subnormal or infinite.
LimbBase == 2 ^ 15

\* digit i of a, and 0 beyond its ends
LAt(a, i) == IF i >= 1 /\ i <= Len(a) THEN a[i] ELSE 0

\* a with its leading (highest) zero digits removed
LTrim(a) ==
    SubSeq(a, 1, IF \E i \in 1 .. Len(a) : a[i] # 0
                 THEN CHOOSE i \in 1 .. Len(a) :
                          a[i] # 0 /\ \A j \in i + 1 .. Len(a) : a[j] = 0
                 ELSE 0)

\* a natural number below 2^31
LFromNat(n) ==
    LTrim(<<n % LimbBase, (n \div LimbBase) % LimbBase, n \div (LimbBase * LimbBase)>>)

\* a + b: the carry into digit i comes from the nearest lower digit whose sum
\* is not LimbBase - 1
LAdd(a, b) ==
    LET n == (IF Len(a) < Len(b) THEN Len(b) ELSE Len(a)) + 1
        Carry(i) ==
            IF \E j \in 1 .. i - 1 :
                   /\ LAt(a, j) + LAt(b, j) >= LimbBase
                   /\ \A k \in j + 1 .. i - 1 : LAt(a, k) + LAt(b, k) = LimbBase - 1
            THEN 1 ELSE 0
    IN  LTrim([i \in 1 .. n |-> (LAt(a, i) + LAt(b, i) + Carry(i)) % LimbBase])

\* a - b for a >= b
LSub(a, b) ==
    LET Borrow(i) ==
            IF \E j \in 1 .. i - 1 :
                   /\ LAt(a, j) < LAt(b, j)
                   /\ \A k \in j + 1 .. i - 1 : LAt(a, k) = LAt(b, k)
            THEN 1 ELSE 0
    IN  LTrim([i \in 1 .. Len(a) |->
                 (LAt(a, i) - LAt(b, i) - Borrow(i) + LimbBase) % LimbBase])

\* a < b, decided at the highest digit that differs
LLess(a, b) ==
    \E i \in 1 .. (IF Len(a) < Len(b) THEN Len(b) ELSE Len(a)) :
        /\ LAt(a, i) < LAt(b, i)
        /\ \A k \in i + 1 .. (IF Len(a) < Len(b) THEN Len(b) ELSE Len(a)) :
               LAt(a, k) = LAt(b, k)

\* the number of binary digits of a
LBitLen(a) ==
    IF a = <<>> THEN 0
    ELSE 15 * (Len(a) - 1)
           + (CHOOSE k \in 1 .. 15 : 2 ^ (k - 1) <= a[Len(a)] /\ a[Len(a)] < 2 ^ k)

\* binary digit i of a, counted from 0
LBit(a, i) == (LAt(a, (i \div 15) + 1) \div 2 ^ (i % 15)) % 2

\* a * 2^k
LShl(a, k) ==
    LET q == k \div 15
        r == k % 15
    IN  LTrim([i \in 1 .. Len(a) + q + 1 |->
                 ((LAt(a, i - q) * 2 ^ r) % LimbBase)
                     + (LAt(a, i - q - 1) \div 2 ^ (15 - r))])

\* a \div 2^k
LShr(a, k) ==
    LET q == k \div 15
        r == k % 15
    IN  LTrim([i \in 1 .. Len(a) - q |->
                 (LAt(a, i + q) \div 2 ^ r)
                     + ((LAt(a, i + q + 1) % 2 ^ r) * 2 ^ (15 - r))])

\* a * b: a times the lowest digit of b, plus a times the rest one place up
RECURSIVE LMul(_, _)
LMul(a, b) ==
    IF a = <<>> \/ b = <<>> THEN <<>>
    ELSE LAdd(LAdd([i \in 1 .. Len(a) |-> (a[i] * Head(b)) % LimbBase],
                   <<0>> \o [i \in 1 .. Len(a) |-> (a[i] * Head(b)) \div LimbBase]),
              LTrim(<<0>> \o LMul(a, Tail(b))))

\* the long division of a by b for the binary digits hi down to lo of a, from
\* st = <<quotient, remainder>> so far: the range is halved, and the upper
\* half is worked out before the lower half is entered
RECURSIVE LDivSteps(_, _, _, _, _)
LDivSteps(st, a, b, hi, lo) ==
    IF hi < lo THEN st
    ELSE IF hi = lo
         THEN LET rem == LAdd(LShl(st[2], 1), IF LBit(a, hi) = 1 THEN <<1>> ELSE <<>>)
              IN  IF LLess(rem, b) THEN <<LShl(st[1], 1), rem>>
                  ELSE <<LAdd(LShl(st[1], 1), <<1>>), LSub(rem, b)>>
    ELSE LET upper == LDivSteps(st, a, b, hi, lo + (hi - lo + 1) \div 2)
         IN  IF Len(upper) = 2
             THEN LDivSteps(upper, a, b, lo + (hi - lo + 1) \div 2 - 1, lo)
             ELSE upper

\* quotient and remainder of a by b # 0
LDivMod(a, b) == LDivSteps(<<<<>>, <<>>>>, a, b, LBitLen(a) - 1, 0)

\* the digit-by-digit square root of a for the pairs of binary digits hi down
\* to lo of a, from st = <<root, remainder>> so far
RECURSIVE LSqrtSteps(_, _, _, _)
LSqrtSteps(st, a, hi, lo) ==
    IF hi < lo THEN st
    ELSE IF hi = lo
         THEN LET rem == LAdd(LShl(st[2], 2),
                              LFromNat(2 * LBit(a, 2 * hi + 1) + LBit(a, 2 * hi)))
                  trial == LAdd(LShl(st[1], 2), <<1>>)
              IN  IF LLess(rem, trial) THEN <<LShl(st[1], 1), rem>>
                  ELSE <<LAdd(LShl(st[1], 1), <<1>>), LSub(rem, trial)>>
    ELSE LET upper == LSqrtSteps(st, a, hi, lo + (hi - lo + 1) \div 2)
         IN  IF Len(upper) = 2
             THEN LSqrtSteps(upper, a, lo + (hi - lo + 1) \div 2 - 1, lo)
             ELSE upper

\* the integer square root of a and what is left: a - root^2
LSqrtRem(a) == LSqrtSteps(<<<<>>, <<>>>>, a, (LBitLen(a) + 1) \div 2 - 1, 0)

\* s * m * 2^e with m made odd
F64Norm(s, m, e) ==
    IF m = <<>> THEN [s |-> 1, m |-> <<>>, e |-> 0]
    ELSE LET z == CHOOSE i \in 0 .. LBitLen(m) - 1 :
                      LBit(m, i) = 1 /\ \A j \in 0 .. i - 1 : LBit(m, j) = 0
         IN  [s |-> s, m |-> LShr(m, z), e |-> e + z]

\* s * (m + f) * 2^e, where 0 < f < 1 if sticky and f = 0 if not, rounded to
\* 53 significant bits, ties to even
F64Round(s, m, e, sticky) ==
    IF LBitLen(m) <= 53 THEN F64Norm(s, m, e)
    ELSE LET k == LBitLen(m) - 53
             kept == LShr(m, k)
             half == LBit(m, k - 1) = 1
             rest == sticky \/ \E i \in 0 .. k - 2 : LBit(m, i) = 1
             up == half /\ (rest \/ LBit(kept, 0) = 1)
         IN  F64Norm(s, IF up THEN LAdd(kept, <<1>>) ELSE kept, e + k)

\* an integer as f64
F64FromInt(n) == F64Norm(IF n < 0 THEN -1 ELSE 1, LFromNat(IF n < 0 THEN -n ELSE n), 0)

F64Abs(x) == [x EXCEPT !.s = 1]

\* x + y
F64Add(x, y) ==
    LET e == IF x.m = <<>> THEN y.e ELSE IF y.m = <<>> \/ x.e < y.e THEN x.e ELSE y.e
        mx == LShl(x.m, IF x.m = <<>> THEN 0 ELSE x.e - e)
        my == LShl(y.m, IF y.m = <<>> THEN 0 ELSE y.e - e)
    IN  IF x.s = y.s THEN F64Round(x.s, LAdd(mx, my), e, FALSE)
        ELSE IF LLess(mx, my) THEN F64Round(y.s, LSub(my, mx), e, FALSE)
        ELSE F64Round(x.s, LSub(mx, my), e, FALSE)

F64Sub(x, y) == F64Add(x, [y EXCEPT !.s = -y.s])

\* x * y
F64Mul(x, y) == F64Round(x.s * y.s, LMul(x.m, y.m), x.e + y.e, FALSE)

\* x / y for y # 0: a quotient of at least 56 bits and whether it is inexact
F64Div(x, y) ==
    IF x.m = <<>> THEN F64FromInt(0)
    ELSE LET k == IF 56 + LBitLen(y.m) > LBitLen(x.m)
                  THEN 56 + LBitLen(y.m) - LBitLen(x.m) ELSE 0
             qr == LDivMod(LShl(x.m, k), y.m)
         IN  F64Round(x.s * y.s, qr[1], x.e - y.e - k, qr[2] # <<>>)

\* sqrt(x) for x >= 0: a root of at least 56 bits and whether it is inexact
F64Sqrt(x) ==
    IF x.m = <<>> THEN F64FromInt(0)
    ELSE LET k0 == IF 112 > LBitLen(x.m) THEN 112 - LBitLen(x.m) ELSE 0
             k == IF (x.e - k0) % 2 = 0 THEN k0 ELSE k0 + 1
             rr == LSqrtRem(LShl(x.m, k))
         IN  F64Round(1, rr[1], (x.e - k) \div 2, rr[2] # <<>>)

\* x < y
F64Less(x, y) ==
    LET e == IF x.e < y.e THEN x.e ELSE y.e
        mx == LShl(x.m, x.e - e)
        my == LShl(y.m, y.e - e)
    IN  IF x.s # y.s THEN x.s < y.s /\ (mx # <<>> \/ my # <<>>)
        ELSE IF x.s = 1 THEN LLess(mx, my) ELSE LLess(my, mx)

\* iter().sum::<f64>(): the terms added from the left, starting from zero
RECURSIVE F64Sum(_)
F64Sum(s) ==
    IF s = <<>> THEN F64FromInt(0)
    ELSE F64Add(F64Sum(SubSeq(s, 1, Len(s) - 1)), s[Len(s)])

(* ------------------------- probabilities -------------------------------- *)
\* a probability in units of 1/(2*PHalf), or NaN
One == 2 * PHalf
Prob(v) == [k |-> "fin", v |-> v]
PNaN == [k |-> "nan", v |-> 0]
POneMinus(p) == IF p.k = "nan" THEN PNaN ELSE Prob(One - p.v)
PTwice(p) == IF p.k = "nan" THEN PNaN ELSE Prob(2 * p.v)

\* significance levels 0 < alpha < 1: the least, the middle and the greatest of the grid
Alphas == {1, PHalf, One - 1}
AlphaRat(alpha) == Rat(alpha, One)

(* ------------------- the distribution capability ------------------------ *)
\* Normal / StudentsT: symmetric about 0; c is cdf at a finite x > 0
\* the quantiles are in units of the quantile at 1 - alpha/2
SymDists ==
    { [fam |-> "sym", c |-> c, qlo |-> -1, qhi |-> 1] : c \in PHalf .. One }

\* ChiSquared / FisherSnedecor: no mass at or below 0
\* the quantile at alpha/2 is positive and below the one at 1 - alpha/2
PosDists ==
    { [fam |-> "pos", c |-> c, qlo |-> 1, qhi |-> 2] : c \in 0 .. One }

\* ContinuousCDF::cdf
cdf(dist, x) ==
    LET cl == Class(x)
    IN  IF cl = "nan" THEN PNaN
        ELSE IF cl = "pinf" THEN Prob(One)
        ELSE IF cl = "pos" THEN Prob(dist.c)
        ELSE IF dist.fam = "pos" \/ cl = "ninf" THEN Prob(0)
        ELSE IF cl = "zero" THEN Prob(PHalf)
        ELSE Prob(One - dist.c)

\* ContinuousCDF::inverse_cdf at 0 < p < 1
inverse_cdf(dist, p) ==
    IF RLess(<<1, 2>>, p) THEN RInt(dist.qhi)
    ELSE IF p = <<1, 2>> /\ dist.fam = "sym" THEN RInt(0)
    ELSE RInt(dist.qlo)

\* StudentsT::new, ChiSquared::new, FisherSnedecor::new accept a shape
\* parameter only if it is a number above zero
ValidShape(df) == Class(df) \in {"pos", "pinf"}

(* --------------------------- tail calculus ------------------------------ *)
Tails == {"Left", "Right", "Two"}

\* the two-tailed branch without the absolute value
calculate_p_signed(t_stat, tail, dist) ==
    CASE tail = "Left" -> cdf(dist, t_stat)
      [] tail = "Right" -> POneMinus(cdf(dist, t_stat))
      [] tail = "Two" -> PTwice(POneMinus(cdf(dist, t_stat)))

calculate_p(t_stat, tail, dist) ==
    CASE tail = "Left" -> cdf(dist, t_stat)
      [] tail = "Right" -> POneMinus(cdf(dist, t_stat))
      [] tail = "Two" -> PTwice(POneMinus(cdf(dist, FAbsVal(t_stat))))

calculate_ci(sample_mean, std_error, alpha, dist) ==
    LET margin_of_error ==
            FMul(FromRat(inverse_cdf(dist, RSub(RInt(1), RDiv(AlphaRat(alpha), RInt(2))))),
                 std_error)
    IN  <<Aff(sample_mean, FNeg(margin_of_error)), Aff(sample_mean, margin_of_error)>>

\* dist.shape() is read as the degrees of freedom k, as the code's comment says
calculate_chi2_ci(sample_variance, alpha, k, dist) ==
    LET chi_square_lower == inverse_cdf(dist, RDiv(AlphaRat(alpha), RInt(2)))
        chi_square_upper == inverse_cdf(dist, RSub(RInt(1), RDiv(AlphaRat(alpha), RInt(2))))
        lower_bound == RDiv(RMul(k, sample_variance), chi_square_upper)
        upper_bound == RDiv(RMul(k, sample_variance), chi_square_lower)
    IN  <<Aff(lower_bound, Fin(0, RInt(0))), Aff(upper_bound, Fin(0, RInt(0)))>>

\* a rejection at p_value = alpha too
RejectNullAtMost(p_value, alpha) == p_value.k = "fin" /\ p_value.v <= alpha

\* let reject_null = p_value < alpha;  (a comparison with NaN is false)
RejectNull(p_value, alpha) == p_value.k = "fin" /\ p_value.v < alpha

\* Ok(TestResult { .. })
Ok(stat, p, ci, h0, ha, reject) ==
    [ok |-> TRUE, test_statistic |-> stat, p_value |-> p, confidence_interval |-> ci,
     null_hypothesis |-> h0, alt_hypothesis |-> ha, reject_null |-> reject]

Err(e) == [ok |-> FALSE, err |-> e]

\* Err(StatError::ComputeError(msg)) with its message, kept where one function
\* has several ComputeErrors that a property tells apart
ErrMsg(e, msg) == [ok |-> FALSE, err |-> e, msg |-> msg]

(* ------------------------ descriptive statistics ------------------------ *)
\* data.iter().sum::<f64>() / n
Mean(data) == Rat(SumSeq(data), Len(data))

\* data.iter().map(|x| (x - mean).powi(2)).sum::<f64>()
SumSqDev(data, mean) ==
    RSumSeq([i \in 1 .. Len(data) |->
                RMul(RSub(RInt(data[i]), mean), RSub(RInt(data[i]), mean))])

\* the variance with n in the denominator
SampleVarBiased(data) == RDiv(SumSqDev(data, Mean(data)), RInt(Len(data)))

\* the unbiased sample variance, n - 1 in the denominator (n >= 2)
SampleVar(data) == RDiv(SumSqDev(data, Mean(data)), RInt(Len(data) - 1))

\* the hypothesis texts, as the format string's pieces
MeanH0(tail, pop_mean) ==
    CASE tail = "Left" -> <<"H0: mu >= ", pop_mean>>
      [] tail = "Right" -> <<"H0: mu <= ", pop_mean>>
      [] tail = "Two" -> <<"H0: mu = ", pop_mean>>

MeanHa(tail, pop_mean) ==
    CASE tail = "Left" -> <<"Ha: mu < ", pop_mean>>
      [] tail = "Right" -> <<"Ha: mu > ", pop_mean>>
      [] tail = "Two" -> <<"Ha: mu != ", pop_mean>>

TwoMeanH0(tail) ==
    CASE tail = "Left" -> <<"H0: mu1 >= mu2">>
      [] tail = "Right" -> <<"H0: mu1 <= mu2">>
      [] tail = "Two" -> <<"H0: mu1 = mu2">>

TwoMeanHa(tail) ==
    CASE tail = "Left" -> <<"Ha: mu1 < mu2">>
      [] tail = "Right" -> <<"Ha: mu1 > mu2">>
      [] tail = "Two" -> <<"Ha: mu1 != mu2">>

(* ------------------------------- t tests -------------------------------- *)
\* the size checks made the other way round: too few before none
SizeErrorFewFirst(sizes) ==
    IF \E i \in 1 .. Len(sizes) : sizes[i] < 2 THEN "InsufficientData"
    ELSE IF \E i \in 1 .. Len(sizes) : sizes[i] = 0 THEN "EmptyData"
    ELSE "none"

\* the size checks of the t-tests on the lengths of their samples:
\* is_empty() of any sample first, then len() < 2 of any sample
SizeError(sizes) ==
    IF \E i \in 1 .. Len(sizes) : sizes[i] = 0 THEN "EmptyData"
    ELSE IF \E i \in 1 .. Len(sizes) : sizes[i] < 2 THEN "InsufficientData"
    ELSE "none"

\* t::one_sample::t_test; t_dist is what StudentsT::new(0, 1, df) returns
t_test(data, pop_mean, tail, alpha, t_dist) ==
    IF SizeError(<<Len(data)>>) # "none" THEN Err(SizeError(<<Len(data)>>))
    ELSE
      LET n == RInt(Len(data))
          sample_mean == Mean(data)
          sample_var == SampleVar(data)
          std_error == FSqrt(RDiv(sample_var, n))
          test_statistic == FDiv(FromRat(RSub(sample_mean, RInt(pop_mean))), std_error)
          df == FromRat(RSub(n, RInt(1)))
      IN  IF ~ValidShape(df) THEN Err("ComputeError")
          ELSE
            LET p_value == calculate_p(test_statistic, tail, t_dist)
                confidence_interval == calculate_ci(sample_mean, std_error, alpha, t_dist)
            IN  Ok(test_statistic, p_value, confidence_interval,
                   MeanH0(tail, pop_mean), MeanHa(tail, pop_mean),
                   RejectNull(p_value, alpha))

\* the test statistic of t_test as f64 computes it, every operation rounded:
\* the sums run from the left, and powi(2) is one multiplication
t_test_statistic_f64(data, pop_mean) ==
    LET sample_data == [i \in 1 .. Len(data) |-> F64FromInt(data[i])]
        n == F64FromInt(Len(data))
        sample_mean == F64Div(F64Sum(sample_data), n)
        sample_var ==
            F64Div(F64Sum([i \in 1 .. Len(data) |->
                              F64Mul(F64Sub(sample_data[i], sample_mean),
                                     F64Sub(sample_data[i], sample_mean))]),
                   F64Sub(n, F64FromInt(1)))
        std_error == F64Sqrt(F64Div(sample_var, n))
    IN  F64Div(F64Sub(sample_mean, F64FromInt(pop_mean)), std_error)

\* the differences taken the other way round
DifferencesReversed(sample1, sample2) ==
    [i \in 1 .. Len(sample1) |-> sample2[i] - sample1[i]]

\* sample1.iter().zip(sample2.iter()).map(|(x1, x2)| x1 - x2)
Differences(sample1, sample2) == [i \in 1 .. Len(sample1) |-> sample1[i] - sample2[i]]

\* t::two_sample::t_test_paired
t_test_paired(data1, data2, tail, alpha, t_dist) ==
    IF Len(data1) # Len(data2) THEN Err("ComputeError")
    ELSE
      LET res == t_test(Differences(data1, data2), 0, tail, alpha, t_dist)
      IN  IF ~res.ok THEN res
          ELSE [res EXCEPT !.null_hypothesis = TwoMeanH0(tail),
                           !.alt_hypothesis = TwoMeanHa(tail)]

\* the degrees of freedom t_test_ind hands to StudentsT::new
IndDf(data1, data2, pooled) ==
    LET n1 == RInt(Len(data1))
        n2 == RInt(Len(data2))
        a == RDiv(SampleVar(data1), n1)
        b == RDiv(SampleVar(data2), n2)
    IN  IF pooled THEN FromRat(RSub(RAdd(n1, n2), RInt(2)))
        ELSE FDiv(FromRat(RMul(RAdd(a, b), RAdd(a, b))),
                  FromRat(RAdd(RDiv(RMul(a, a), RSub(n1, RInt(1))),
                               RDiv(RMul(b, b), RSub(n2, RInt(1))))))

\* the Welch branch with the first sample's variance in both terms
IndStdErrorFirstVariance(data1, data2, pooled) ==
    LET n1 == RInt(Len(data1))
        n2 == RInt(Len(data2))
        var1 == SampleVar(data1)
        var2 == SampleVar(data2)
    IN  IF pooled
        THEN LET pooled_var ==
                     RDiv(RAdd(RMul(RSub(n1, RInt(1)), var1), RMul(RSub(n2, RInt(1)), var2)),
                          RSub(RAdd(n1, n2), RInt(2)))
             IN  FSqrt(RMul(pooled_var, RAdd(RDiv(RInt(1), n1), RDiv(RInt(1), n2))))
        ELSE FSqrt(RAdd(RDiv(var1, n1), RDiv(var1, n2)))

\* the standard error of t_test_ind
IndStdError(data1, data2, pooled) ==
    LET n1 == RInt(Len(data1))
        n2 == RInt(Len(data2))
        var1 == SampleVar(data1)
        var2 == SampleVar(data2)
    IN  IF pooled
        THEN LET pooled_var ==
                     RDiv(RAdd(RMul(RSub(n1, RInt(1)), var1), RMul(RSub(n2, RInt(1)), var2)),
                          RSub(RAdd(n1, n2), RInt(2)))
             IN  FSqrt(RMul(pooled_var, RAdd(RDiv(RInt(1), n1), RDiv(RInt(1), n2))))
        ELSE FSqrt(RAdd(RDiv(var1, n1), RDiv(var2, n2)))

\* t::two_sample::t_test_ind
t_test_ind(data1, data2, tail, alpha, pooled, t_dist) ==
    IF SizeError(<<Len(data1), Len(data2)>>) # "none"
    THEN Err(SizeError(<<Len(data1), Len(data2)>>))
    ELSE
      LET mean1 == Mean(data1)
          mean2 == Mean(data2)
          std_error == IndStdError(data1, data2, pooled)
          df == IndDf(data1, data2, pooled)
          test_statistic == FDiv(FromRat(RSub(mean1, mean2)), std_error)
      IN  IF ~ValidShape(df) THEN Err("ComputeError")
          ELSE
            LET p_value == calculate_p(test_statistic, tail, t_dist)
                confidence_interval ==
                    calculate_ci(RSub(mean1, mean2), std_error, alpha, t_dist)
            IN  Ok(test_statistic, p_value, confidence_interval,
                   TwoMeanH0(tail), TwoMeanHa(tail), RejectNull(p_value, alpha))

(* ------------------------------- z tests -------------------------------- *)
\* a check that lets a deviation of zero through
Negative(pop_std) == pop_std < 0

\* if pop_std <= 0.0
NonPositive(pop_std) == pop_std <= 0

\* z::one_sample::z_test; z_dist is Normal::new(0, 1)
z_test(data, pop_mean, pop_std, tail, alpha, z_dist) ==
    IF NonPositive(pop_std) THEN Err("ComputeError")
    ELSE IF data = <<>> THEN Err("EmptyData")
    ELSE
      LET n == RInt(Len(data))
          sample_mean == Mean(data)
          std_error == FDiv(FromRat(RInt(pop_std)), FSqrt(n))
          test_statistic == FDiv(FromRat(RSub(sample_mean, RInt(pop_mean))), std_error)
          p_value == calculate_p(test_statistic, tail, z_dist)
          confidence_interval == calculate_ci(sample_mean, std_error, alpha, z_dist)
      IN  Ok(test_statistic, p_value, confidence_interval,
             MeanH0(tail, pop_mean), MeanHa(tail, pop_mean), RejectNull(p_value, alpha))

\* z::two_sample::z_test_paired
z_test_paired(data1, data2, pop_std_diff, tail, alpha, z_dist) ==
    IF NonPositive(pop_std_diff) THEN Err("ComputeError")
    ELSE IF data1 = <<>> \/ data2 = <<>> THEN Err("EmptyData")
    ELSE IF Len(data1) # Len(data2) THEN Err("ComputeError")
    ELSE
      LET n == RInt(Len(data1))
          sample_mean_diff == Mean(Differences(data1, data2))
          std_error == FDiv(FromRat(RInt(pop_std_diff)), FSqrt(n))
          test_statistic == FDiv(FromRat(sample_mean_diff), std_error)
          p_value == calculate_p(test_statistic, tail, z_dist)
          confidence_interval == calculate_ci(sample_mean_diff, std_error, alpha, z_dist)
      IN  Ok(test_statistic, p_value, confidence_interval,
             TwoMeanH0(tail), TwoMeanHa(tail), RejectNull(p_value, alpha))

\* z::two_sample::z_test_ind
z_test_ind(data1, data2, pop_std1, pop_std2, tail, alpha, z_dist) ==
    IF NonPositive(pop_std1) THEN Err("ComputeError")
    ELSE IF NonPositive(pop_std2) THEN Err("ComputeError")
    ELSE IF data1 = <<>> THEN Err("EmptyData")
    ELSE IF data2 = <<>> THEN Err("EmptyData")
    ELSE
      LET n1 == RInt(Len(data1))
          n2 == RInt(Len(data2))
          mean1 == Mean(data1)
          mean2 == Mean(data2)
          std_error == FSqrt(RAdd(RDiv(RInt(pop_std1 * pop_std1), n1),
                                  RDiv(RInt(pop_std2 * pop_std2), n2)))
          test_statistic == FDiv(FromRat(RSub(mean1, mean2)), std_error)
          p_value == calculate_p(test_statistic, tail, z_dist)
          confidence_interval == calculate_ci(RSub(mean1, mean2), std_error, alpha, z_dist)
      IN  Ok(test_statistic, p_value, confidence_interval,
             TwoMeanH0(tail), TwoMeanHa(tail), RejectNull(p_value, alpha))

(* --------------------------- proportion tests --------------------------- *)
PropH0(tail, p0) ==
    CASE tail = "Left" -> <<"H0: p >= ", p0>>
      [] tail = "Right" -> <<"H0: p <= ", p0>>
      [] tail = "Two" -> <<"H0: p = ", p0>>

PropHa(tail, p0) ==
    CASE tail = "Left" -> <<"Ha: p < ", p0>>
      [] tail = "Right" -> <<"Ha: p > ", p0>>
      [] tail = "Two" -> <<"Ha: p != ", p0>>

TwoPropH0(tail) ==
    CASE tail = "Left" -> <<"H0: p1 >= p2">>
      [] tail = "Right" -> <<"H0: p1 <= p2">>
      [] tail = "Two" -> <<"H0: p1 = p2">>

\* the two-tailed text holds the three characters U+00E2 U+2030 U+00A0 where
\* the other tests have the not-equal sign (written != here)
TwoPropHa(tail) ==
    CASE tail = "Left" -> <<"Ha: p1 < p2">>
      [] tail = "Right" -> <<"Ha: p1 > p2">>
      [] tail = "Two" -> <<"Ha: p1 U+00E2 U+2030 U+00A0 p2">>

\* the standard error taken from the sample proportion
PropStdErrorArgSample(pop_proportion, sample_proportion) == sample_proportion

\* the proportion the one-sample standard error is computed from
PropStdErrorArg(pop_proportion, sample_proportion) == pop_proportion

\* proportion::one_sample::z_test; pop_proportion is a rational
prop_z_test(data, pop_proportion, tail, alpha, z_dist) ==
    IF ~(RLeq(RInt(0), pop_proportion) /\ RLeq(pop_proportion, RInt(1)))
    THEN Err("ComputeError")
    ELSE IF data = <<>> THEN Err("EmptyData")
    ELSE
      LET n == RInt(Len(data))
          sample_proportion == Mean(data)
          p_se == PropStdErrorArg(pop_proportion, sample_proportion)
          std_error == FSqrt(RDiv(RMul(p_se, RSub(RInt(1), p_se)), n))
      IN  IF Class(std_error) = "zero" THEN Err("ComputeError")
          ELSE
            LET test_statistic ==
                    FDiv(FromRat(RSub(sample_proportion, pop_proportion)), std_error)
                p_value == calculate_p(test_statistic, tail, z_dist)
                confidence_interval ==
                    calculate_ci(sample_proportion, std_error, alpha, z_dist)
            IN  Ok(test_statistic, p_value, confidence_interval,
                   PropH0(tail, pop_proportion), PropHa(tail, pop_proportion),
                   RejectNull(p_value, alpha))

\* the standard error of the two-sample proportion test (n1, n2 > 0)
PropIndStdError(series1, series2, pooled) ==
    LET n1 == RInt(Len(series1))
        n2 == RInt(Len(series2))
        p1 == Mean(series1)
        p2 == Mean(series2)
    IN  IF pooled
        THEN LET pooled_proportion ==
                     Rat(SumSeq(series1) + SumSeq(series2), Len(series1) + Len(series2))
             IN  FSqrt(RMul(RMul(pooled_proportion, RSub(RInt(1), pooled_proportion)),
                            RAdd(RDiv(RInt(1), n1), RDiv(RInt(1), n2))))
        ELSE FSqrt(RAdd(RDiv(RMul(p1, RSub(RInt(1), p1)), n1),
                        RDiv(RMul(p2, RSub(RInt(1), p2)), n2)))

\* proportion::two_sample::z_test_ind.  With an empty series p = 0/0 is NaN
\* and every number derived from it is NaN; no input is rejected.
prop_z_test_ind(series1, series2, tail, alpha, pooled, normal_dist) ==
    IF series1 = <<>> \/ series2 = <<>>
    THEN Ok(NaN, calculate_p(NaN, tail, normal_dist), <<AffNaN, AffNaN>>,
            TwoPropH0(tail), TwoPropHa(tail),
            RejectNull(calculate_p(NaN, tail, normal_dist), alpha))
    ELSE
      LET p1 == Mean(series1)
          p2 == Mean(series2)
          std_error == PropIndStdError(series1, series2, pooled)
          test_statistic == FDiv(FromRat(RSub(p1, p2)), std_error)
          p_value == calculate_p(test_statistic, tail, normal_dist)
          confidence_interval == calculate_ci(RSub(p1, p2), std_error, alpha, normal_dist)
      IN  Ok(test_statistic, p_value, confidence_interval,
             TwoPropH0(tail), TwoPropHa(tail), RejectNull(p_value, alpha))

(* -------------------------------- ANOVA --------------------------------- *)
RECURSIVE Flatten(_)
Flatten(groups) ==
    IF groups = <<>> THEN <<>> ELSE Head(groups) \o Flatten(Tail(groups))

\* common::utils::mean_null_hypothesis: "H0: mu1" then " = mu<i>" for i in 2..=k
mean_null_hypothesis(num_groups) ==
    <<"H0: mu", 1>> \o [j \in 1 .. 2 * (IF num_groups < 2 THEN 0 ELSE num_groups - 1) |->
                          IF j % 2 = 1 THEN " = mu" ELSE (j \div 2) + 1]

\* the squared deviations of the group means, without the group sizes
SSBetweenUnweighted(data_groups, grand_mean) ==
    RSumSeq([g \in 1 .. Len(data_groups) |->
               RMul(RSub(Mean(data_groups[g]), grand_mean),
                    RSub(Mean(data_groups[g]), grand_mean))])

\* sum over groups of n * (mean - grand_mean)^2
SSBetween(data_groups, grand_mean) ==
    RSumSeq([g \in 1 .. Len(data_groups) |->
               RMul(RInt(Len(data_groups[g])),
                    RMul(RSub(Mean(data_groups[g]), grand_mean),
                         RSub(Mean(data_groups[g]), grand_mean)))])

\* sum over groups of the squared deviations from the group's mean
SSWithin(data_groups) ==
    RSumSeq([g \in 1 .. Len(data_groups) |->
               SumSqDev(data_groups[g], Mean(data_groups[g]))])

\* a guard that looks for a negative mean square only
MsWithinIsNegative(ms_within) == RSgn(ms_within) < 0

\* the group checks made the other way round: an empty group before the count
GroupsErrorEmptyFirst(data_groups) ==
    IF \E g \in 1 .. Len(data_groups) : data_groups[g] = <<>> THEN "EmptyData"
    ELSE IF Len(data_groups) < 2 THEN "ComputeError"
    ELSE "none"

\* the checks on the groups: fewer than two groups, then an empty group
GroupsError(data_groups) ==
    IF Len(data_groups) < 2 THEN "ComputeError"
    ELSE IF \E g \in 1 .. Len(data_groups) : data_groups[g] = <<>> THEN "EmptyData"
    ELSE "none"

\* the within-group mean square compared with 0.0
MsWithinIsZero(ms_within) == RSgn(ms_within) = 0

\* anova::one_way::anova; f_dist is FisherSnedecor::new(df_between, df_within)
anova(data_groups, alpha, f_dist) ==
    LET num_groups == Len(data_groups)
    IN  IF GroupsError(data_groups) # "none" THEN Err(GroupsError(data_groups))
        ELSE
          LET all_values == Flatten(data_groups)
              total_n == Len(all_values)
              grand_mean == Mean(all_values)
              ss_between == SSBetween(data_groups, grand_mean)
              ss_within == SSWithin(data_groups)
              df_between == num_groups - 1
              df_within == total_n - num_groups
          IN  IF df_within <= 0 THEN Err("ComputeError")
              ELSE
                LET ms_between == RDiv(ss_between, RInt(df_between))
                    ms_within == RDiv(ss_within, RInt(df_within))
                IN  IF MsWithinIsZero(ms_within) THEN Err("ComputeError")
                    ELSE
                      LET f_statistic == FDiv(FromRat(ms_between), FromRat(ms_within))
                          p_value == calculate_p(f_statistic, "Right", f_dist)
                      IN  Ok(f_statistic, p_value, <<AffNaN, AffNaN>>,
                             mean_null_hypothesis(num_groups),
                             <<"Ha: At least one group mean is different">>,
                             RejectNull(p_value, alpha))

(* --------------------------- chi-square tests --------------------------- *)
VarHa(tail, pop_variance) ==
    CASE tail = "Two" -> <<"Ha: sigma2 != ", pop_variance>>
      [] tail = "Left" -> <<"Ha: sigma2 < ", pop_variance>>
      [] tail = "Right" -> <<"Ha: sigma2 > ", pop_variance>>

\* the variance the test hands to calculate_chi2_ci
VarianceCiArg(sample_variance, pop_variance) == RInt(pop_variance)

\* chi_square::variance::variance; the error is a String
variance(data, pop_variance, tail, alpha, chi_distribution) ==
    LET n == Len(data)
    IN  IF n < 2 THEN Err("Sample size must be at least 2.")
        ELSE IF pop_variance <= 0
        THEN Err("Population variance must be a positive finite number.")
        ELSE
          LET sample_variance == SampleVar(data)
              test_statistic ==
                  FromRat(RDiv(RMul(RInt(n - 1), sample_variance), RInt(pop_variance)))
              df == RInt(n - 1)
          IN  IF ~ValidShape(FromRat(df)) THEN Err("Chi-squared error")
              ELSE
                LET p_value == calculate_p(test_statistic, tail, chi_distribution)
                    confidence_interval ==
                        calculate_chi2_ci(VarianceCiArg(sample_variance, pop_variance),
                                          alpha, df, chi_distribution)
                IN  Ok(test_statistic, p_value, confidence_interval,
                       <<"H0: sigma2 = ", pop_variance>>, VarHa(tail, pop_variance),
                       RejectNull(p_value, alpha))

\* the deviation left unsquared
CellTermUnsquared(obs, exp) ==
    IF RSgn(exp) = 0 THEN RInt(0)
    ELSE RDiv(RSub(obs, exp), exp)

\* (obs - exp)^2 / exp, and 0.0 for a cell whose expected frequency is 0.0
CellTerm(obs, exp) ==
    IF RSgn(exp) = 0 THEN RInt(0)
    ELSE RDiv(RMul(RSub(obs, exp), RSub(obs, exp)), exp)

\* chi_square::categorical::independence
independence(contingency_table, alpha, chi_distribution) ==
    LET num_rows == Len(contingency_table)
    IN  IF num_rows < 2 THEN Err("ComputeError")
        ELSE
          LET num_cols == Len(contingency_table[1])
          IN  IF num_cols < 2
                 \/ ~(\A i \in 1 .. num_rows : Len(contingency_table[i]) = num_cols)
              THEN Err("ComputeError")
              ELSE
                LET total == SumSeq(Flatten(contingency_table))
                IN  IF total = 0 THEN Err("ComputeError")
                    ELSE
                      LET row_totals ==
                              [i \in 1 .. num_rows |-> SumSeq(contingency_table[i])]
                          col_totals ==
                              [j \in 1 .. num_cols |->
                                 SumSeq([i \in 1 .. num_rows |-> contingency_table[i][j]])]
                          expected ==
                              [i \in 1 .. num_rows |-> [j \in 1 .. num_cols |->
                                 Rat(row_totals[i] * col_totals[j], total)]]
                          test_statistic ==
                              FromRat(RSumSeq([i \in 1 .. num_rows |->
                                 RSumSeq([j \in 1 .. num_cols |->
                                    CellTerm(RInt(contingency_table[i][j]), expected[i][j])])]))
                          df == (num_rows - 1) * (num_cols - 1)
                      IN  IF ~ValidShape(FromRat(RInt(df))) THEN Err("ComputeError")
                          ELSE
                            LET p_value ==
                                    calculate_p(test_statistic, "Right", chi_distribution)
                            IN  Ok(test_statistic, p_value, <<AffNaN, AffNaN>>,
                                   <<"H0: Variables are independent">>,
                                   <<"Ha: Variables are not independent">>,
                                   RejectNull(p_value, alpha))

\* the number of categories tested before the two lengths are compared
CategoriesErrorFewFirst(observed, expected) ==
    IF Len(observed) < 2 THEN "At least two categories required"
    ELSE IF Len(observed) # Len(expected)
         THEN "Observed and expected lengths must match"
         ELSE "none"

\* the checks on the categories: the lengths, then their number
CategoriesError(observed, expected) ==
    IF Len(observed) # Len(expected) THEN "Observed and expected lengths must match"
    ELSE IF Len(observed) < 2 THEN "At least two categories required"
    ELSE "none"

\* chi_square::categorical::goodness_of_fit
goodness_of_fit(observed, expected, alpha, chi_distribution) ==
    IF CategoriesError(observed, expected) # "none"
    THEN ErrMsg("ComputeError", CategoriesError(observed, expected))
    ELSE
      LET test_statistic ==
              FromRat(RSumSeq([i \in 1 .. Len(observed) |->
                                 CellTerm(RInt(observed[i]), RInt(expected[i]))]))
          df == Len(observed) - 1
      IN  IF ~ValidShape(FromRat(RInt(df)))
          THEN ErrMsg("ComputeError", "Chi-squared distribution error")
          ELSE
            LET p_value == calculate_p(test_statistic, "Right", chi_distribution)
            IN  Ok(test_statistic, p_value, <<AffNaN, AffNaN>>,
                   <<"H0: Observed distribution matches expected distribution">>,
                   <<"Ha: Observed distribution does not match expected distribution">>,
                   RejectNull(p_value, alpha))

(* --------------------------- Mann-Whitney U ----------------------------- *)
\* the values of both groups, each tagged with its group
Combine(data1, data2) ==
    [i \in 1 .. Len(data1) |-> <<data1[i], 1>>] \o [i \in 1 .. Len(data2) |-> <<data2[i], 2>>]

\* combined.sort_by(|a, b| a.0.partial_cmp(&b.0).unwrap()): a stable sort, so
\* an element goes behind the smaller ones and the equal ones before it
SortByValue(combined) ==
    LET N == Len(combined)
        Place(k) ==
            Cardinality({j \in 1 .. N :
                           \/ combined[j][1] < combined[k][1]
                           \/ (combined[j][1] = combined[k][1] /\ j <= k)})
    IN  [p \in 1 .. N |-> combined[CHOOSE k \in 1 .. N : Place(k) = p]]

\* no look ahead for equal values: every element is a run of its own
RunEndNoTies(combined, start, end) == end

\* the inner while: the last 0-based index of the run of equal values from start
RECURSIVE RunEnd(_, _, _)
RunEnd(combined, start, end) ==
    IF end + 1 < Len(combined) /\ combined[end + 2][1] = combined[start + 1][1]
    THEN RunEnd(combined, start, end + 1)
    ELSE end

\* the average of the 0-based positions, not of the 1-based ranks
RankAvgOfIndices(start, end) == Rat(start + end, 2)

\* the average taken in integer arithmetic
RankAvgFloor(start, end) == RInt(((start + 1) + (end + 1)) \div 2)

\* ((start + 1) + (end + 1)) as f64 / 2.0
RankAvg(start, end) == Rat((start + 1) + (end + 1), 2)

\* the outer while from index i on (0-based, as in the code)
RECURSIVE AssignRanks(_, _, _)
AssignRanks(combined, i, rank_values) ==
    IF ~(i < Len(combined)) THEN rank_values
    ELSE
      LET start == i
          end == RunEnd(combined, start, i)
          rank_avg == RankAvg(start, end)
      IN  AssignRanks(combined, end + 1,
                      [j \in 1 .. Len(combined) |->
                         IF start < j /\ j <= end + 1 THEN rank_avg ELSE rank_values[j]])

\* vec![0.0; combined.len()] filled by the loop
RankValues(combined) ==
    AssignRanks(combined, 0, [j \in 1 .. Len(combined) |-> RInt(0)])

\* an index that does not move past the run
NextIndexStuck(end) == end

\* i = end + 1
NextIndex(end) == end + 1

\* one pass of the outer while: the locals after it.  writes counts the
\* assignments to each position (0, 1, or 2 for more than one)
RankLoopBody(combined, i, rank_values, writes) ==
    LET start == i
        end == RunEnd(combined, start, i)
        rank_avg == RankAvg(start, end)
    IN  [i |-> NextIndex(end),
         rank_values |-> [j \in 1 .. Len(combined) |->
                            IF start < j /\ j <= end + 1 THEN rank_avg ELSE rank_values[j]],
         writes |-> [j \in 1 .. Len(combined) |->
                       IF start < j /\ j <= end + 1
                       THEN (IF writes[j] = 0 THEN 1 ELSE 2) ELSE writes[j]]]

\* the sum of the ranks of one group
RankSum(combined, rank_values, group) ==
    RSumSeq([j \in 1 .. Len(combined) |->
               IF combined[j][2] = group THEN rank_values[j] ELSE RInt(0)])

\* the number of observations of one group
GroupSize(combined, group) ==
    Cardinality({j \in 1 .. Len(combined) : combined[j][2] = group})

\* rank_sum - n (n + 1) / 2 of one group
URanked(combined, rank_values, group) ==
    LET n == RInt(GroupSize(combined, group))
    IN  RSub(RankSum(combined, rank_values, group),
             RDiv(RMul(n, RAdd(n, RInt(1))), RInt(2)))

\* u1 and u2 of two non-empty groups
UStat(data1, data2, group) ==
    LET combined == SortByValue(Combine(data1, data2))
    IN  URanked(combined, RankValues(combined), group)

\* the larger of the two
RMax(a, b) == IF RLeq(a, b) THEN b ELSE a

\* the first of the two
RFirst(a, b) == a

\* f64::min of two numbers
RMin(a, b) == IF RLeq(a, b) THEN a ELSE b

\* u_test from the rank sums on: U, the normal approximation, the result
u_test_ranked(combined, rank_values, alpha, tail_type, dist) ==
    LET n1 == RInt(GroupSize(combined, 1))
        n2 == RInt(GroupSize(combined, 2))
        u1 == URanked(combined, rank_values, 1)
        u2 == URanked(combined, rank_values, 2)
        u_statistic == RMin(u1, u2)
        total == RAdd(n1, n2)
        mean_u == RDiv(RMul(n1, n2), RInt(2))
        variance_u == RDiv(RMul(RMul(n1, n2), RAdd(total, RInt(1))), RInt(12))
        z == FDiv(FromRat(RSub(u_statistic, mean_u)), FSqrt(variance_u))
        p_value == calculate_p(z, tail_type, dist)
    IN  Ok(FromRat(u_statistic), p_value, <<AffNaN, AffNaN>>,
           <<"H0: The distributions of both groups are equal.">>,
           <<"Ha: The distributions of both groups are not equal.">>,
           RejectNull(p_value, alpha))

\* mann_whitney::u::u_test; the error is a String
u_test(data1, data2, alpha, tail_type, dist) ==
    IF Len(data1) = 0 \/ Len(data2) = 0
    THEN Err("Both groups must contain at least one observation.")
    ELSE
      LET combined == SortByValue(Combine(data1, data2))
      IN  u_test_ranked(combined, RankValues(combined), alpha, tail_type, dist)

(* ------------------------------ the inputs ------------------------------ *)
\* a sample: up to MaxLen observations, each in 0 .. MaxVal
Samples == UNION { [1 .. n -> 0 .. MaxVal] : n \in 0 .. MaxLen }

\* the sample and the hypothesized mean of the crate's test of t_test
ScenarioSample == <<2, 3, 5, 7, 11>>

ScenarioPopMean == 5

\* binary data, 1 for a success
BinarySamples == UNION { [1 .. n -> 0 .. 1] : n \in 0 .. MaxLen }

\* the samples in non-decreasing order: one per multiset of observations, for
\* the tests that depend on a sample through its sums and its sorted order only
SortedSamples == { s \in Samples : \A i \in 1 .. Len(s) - 1 : s[i] <= s[i + 1] }

\* population standard deviations and variances: one below zero, zero, and
\* one above zero
PopScales == {-1, 0, MaxVal}

\* hypothesized proportions: below, at the ends of, inside and above [0, 1]
PopProportions == {<<-1, 2>>, <<0, 1>>, <<1, 2>>, <<1, 1>>, <<3, 2>>}

\* the groups of the crate's two tests of anova
ScenarioGroups == <<<<2, 3, 3, 5, 6>>, <<3, 4, 4, 6, 8>>, <<5, 6, 7, 8, 9>>>>

ScenarioGroupsNoRejection == <<<<2, 3, 4, 5, 6>>, <<3, 4, 5, 6, 7>>, <<4, 5, 6, 7, 8>>>>

\* group lists of ANOVA: none, one, two or three groups, and the two scenarios
GroupLists ==
    UNION { [1 .. k -> SortedSamples] : k \in 0 .. 3 }
        \cup {ScenarioGroups, ScenarioGroupsNoRejection}

\* rows of a contingency table: f64 cells below, at and above zero
TableRows == UNION { [1 .. n -> {-1, 0, MaxVal}] : n \in 0 .. MaxLen }

\* the table of the crate's test of independence
ScenarioTable == <<<<20, 30>>, <<50, 10>>>>

\* contingency tables of one or two rows, ragged ones included, and the
\* scenario table
Tables == UNION { [1 .. r -> TableRows] : r \in 1 .. 2 } \cup {ScenarioTable}

\* the calls: the function, its arguments, and the distribution it is given
TCalls ==
    [op : {"t_test"}, data : Samples, pop_mean : 0 .. MaxVal, tail : Tails,
     alpha : Alphas, dist : SymDists]
    \cup [op : {"t_test"}, data : {ScenarioSample}, pop_mean : {ScenarioPopMean},
          tail : Tails, alpha : Alphas, dist : SymDists]
    \cup [op : {"t_test_paired"}, data1 : Samples, data2 : Samples, tail : Tails,
          alpha : Alphas, dist : SymDists]
    \cup [op : {"t_test_ind"}, data1 : SortedSamples, data2 : SortedSamples, tail : Tails,
          alpha : Alphas, pooled : BOOLEAN, dist : SymDists]

ZCalls ==
    [op : {"z_test"}, data : Samples, pop_mean : 0 .. MaxVal, pop_std : PopScales,
     tail : Tails, alpha : Alphas, dist : SymDists]
    \cup [op : {"z_test_paired"}, data1 : Samples, data2 : Samples, pop_std : PopScales,
          tail : Tails, alpha : Alphas, dist : SymDists]
    \cup [op : {"z_test_ind"}, data1 : SortedSamples, data2 : SortedSamples,
          pop_std1 : PopScales,
          pop_std2 : PopScales, tail : Tails, alpha : Alphas, dist : SymDists]

PropCalls ==
    [op : {"prop_z_test"}, data : BinarySamples, pop_proportion : PopProportions,
     tail : Tails, alpha : Alphas, dist : SymDists]
    \cup [op : {"prop_z_test_ind"}, data1 : BinarySamples, data2 : BinarySamples,
          tail : Tails, alpha : Alphas, pooled : BOOLEAN, dist : SymDists]

AnovaCalls == [op : {"anova"}, data_groups : GroupLists, alpha : Alphas, dist : PosDists]

ChiCalls ==
    [op : {"variance"}, data : Samples, pop_variance : PopScales, tail : Tails,
     alpha : Alphas, dist : PosDists]
    \cup [op : {"independence"}, contingency_table : Tables, alpha : Alphas,
          dist : PosDists]
    \cup [op : {"goodness_of_fit"}, observed : Samples, expected : Samples,
          alpha : Alphas, dist : PosDists]

\* the samples of the crate's two tests of u_test
ScenarioRanks1 == <<1, 2, 3, 4, 5>>

ScenarioRanks2 == <<3, 4, 5, 6, 7>>

UCalls ==
    [op : {"u_test"}, data1 : SortedSamples, data2 : SortedSamples, alpha : Alphas,
     tail : Tails, dist : SymDists]
    \cup [op : {"u_test"}, data1 : {ScenarioRanks1},
          data2 : {ScenarioRanks1, ScenarioRanks2}, alpha : Alphas,
          tail : Tails, dist : SymDists]

Calls == TCalls \cup ZCalls \cup PropCalls \cup AnovaCalls \cup ChiCalls \cup UCalls

(* ---------------------------- the state machine ------------------------- *)
\* a behaviour is one call: the functions are pure and keep nothing between
\* calls.  The call is made in the initial state and its action returns.
Pending == [ok |-> FALSE, err |-> "pending"]

\* no call is inside the rank loop
Idle == [pc |-> "idle"]

Init ==
    /\ call \in Calls
    /\ result = Pending
    /\ frame = Idle

Called(op) == call.op = op /\ result = Pending

TTest ==
    /\ Called("t_test")
    /\ result' = t_test(call.data, call.pop_mean, call.tail, call.alpha, call.dist)
    /\ UNCHANGED <<call, frame>>

TTestPaired ==
    /\ Called("t_test_paired")
    /\ result' = t_test_paired(call.data1, call.data2, call.tail, call.alpha, call.dist)
    /\ UNCHANGED <<call, frame>>

TTestInd ==
    /\ Called("t_test_ind")
    /\ result' = t_test_ind(call.data1, call.data2, call.tail, call.alpha, call.pooled,
                            call.dist)
    /\ UNCHANGED <<call, frame>>

ZTest ==
    /\ Called("z_test")
    /\ result' = z_test(call.data, call.pop_mean, call.pop_std, call.tail, call.alpha,
                        call.dist)
    /\ UNCHANGED <<call, frame>>

ZTestPaired ==
    /\ Called("z_test_paired")
    /\ result' = z_test_paired(call.data1, call.data2, call.pop_std, call.tail,
                               call.alpha, call.dist)
    /\ UNCHANGED <<call, frame>>

ZTestInd ==
    /\ Called("z_test_ind")
    /\ result' = z_test_ind(call.data1, call.data2, call.pop_std1, call.pop_std2,
                            call.tail, call.alpha, call.dist)
    /\ UNCHANGED <<call, frame>>

PropZTest ==
    /\ Called("prop_z_test")
    /\ result' = prop_z_test(call.data, call.pop_proportion, call.tail, call.alpha,
                             call.dist)
    /\ UNCHANGED <<call, frame>>

PropZTestInd ==
    /\ Called("prop_z_test_ind")
    /\ result' = prop_z_test_ind(call.data1, call.data2, call.tail, call.alpha,
                                 call.pooled, call.dist)
    /\ UNCHANGED <<call, frame>>

Anova ==
    /\ Called("anova")
    /\ result' = anova(call.data_groups, call.alpha, call.dist)
    /\ UNCHANGED <<call, frame>>

Variance ==
    /\ Called("variance")
    /\ result' = variance(call.data, call.pop_variance, call.tail, call.alpha, call.dist)
    /\ UNCHANGED <<call, frame>>

Independence ==
    /\ Called("independence")
    /\ result' = independence(call.contingency_table, call.alpha, call.dist)
    /\ UNCHANGED <<call, frame>>

GoodnessOfFit ==
    /\ Called("goodness_of_fit")
    /\ result' = goodness_of_fit(call.observed, call.expected, call.alpha, call.dist)
    /\ UNCHANGED <<call, frame>>

UTest ==
    /\ Called("u_test")
    /\ result' = u_test(call.data1, call.data2, call.alpha, call.tail, call.dist)
    /\ UNCHANGED <<call, frame>>

Next ==
    \/ TTest
    \/ TTestPaired
    \/ TTestInd
    \/ ZTest
    \/ ZTestPaired
    \/ ZTestInd
    \/ PropZTest
    \/ PropZTestInd
    \/ Anova
    \/ Variance
    \/ Independence
    \/ GoodnessOfFit
    \/ UTest

Spec == Init /\ [][Next]_vars

\* the one-sample t-test alone
InitT ==
    /\ call \in { c \in Calls : c.op = "t_test" }
    /\ result = Pending
    /\ frame = Idle

SpecT == InitT /\ [][TTest]_vars

\* the independent two-sample tests alone
InitInd ==
    /\ call \in { c \in Calls : c.op \in {"t_test_ind", "z_test_ind", "prop_z_test_ind"} }
    /\ result = Pending
    /\ frame = Idle

NextInd == TTestInd \/ ZTestInd \/ PropZTestInd

SpecInd == InitInd /\ [][NextInd]_vars

\* ANOVA alone
InitAnova ==
    /\ call \in AnovaCalls
    /\ result = Pending
    /\ frame = Idle

SpecAnova == InitAnova /\ [][Anova]_vars

\* the Mann-Whitney U test alone
InitU ==
    /\ call \in UCalls
    /\ result = Pending
    /\ frame = Idle

SpecU == InitU /\ [][UTest]_vars

\* the paired tests alone
InitPaired ==
    /\ call \in { c \in Calls : c.op \in {"t_test_paired", "z_test_paired"} }
    /\ result = Pending
    /\ frame = Idle

NextPaired == TTestPaired \/ ZTestPaired

SpecPaired == InitPaired /\ [][NextPaired]_vars

\* the proportion tests alone
InitProp ==
    /\ call \in PropCalls
    /\ result = Pending
    /\ frame = Idle

NextProp == PropZTest \/ PropZTestInd

SpecProp == InitProp /\ [][NextProp]_vars

\* the chi-square tests alone
InitChi ==
    /\ call \in ChiCalls
    /\ result = Pending
    /\ frame = Idle

NextChi == Variance \/ Independence \/ GoodnessOfFit

SpecChi == InitChi /\ [][NextChi]_vars

\* u_test step by step: the checks, then the rank loop one pass at a time
\* (pc "rank" inside the loop, "ranked" behind it), then the rest of the
\* function
URejectEmpty ==
    /\ Called("u_test")
    /\ frame = Idle
    /\ (Len(call.data1) = 0 \/ Len(call.data2) = 0)
    /\ result' = u_test(call.data1, call.data2, call.alpha, call.tail, call.dist)
    /\ UNCHANGED <<call, frame>>

RankEnter ==
    /\ Called("u_test")
    /\ frame = Idle
    /\ ~(Len(call.data1) = 0 \/ Len(call.data2) = 0)
    /\ frame' = [pc |-> "rank",
                 combined |-> SortByValue(Combine(call.data1, call.data2)),
                 i |-> 0,
                 rank_values |-> [j \in 1 .. Len(call.data1) + Len(call.data2) |-> RInt(0)],
                 writes |-> [j \in 1 .. Len(call.data1) + Len(call.data2) |-> 0]]
    /\ UNCHANGED <<call, result>>

RankIterate ==
    /\ frame.pc = "rank"
    /\ frame.i < Len(frame.combined)
    /\ LET after == RankLoopBody(frame.combined, frame.i, frame.rank_values, frame.writes)
       IN  frame' = [frame EXCEPT !.i = after.i, !.rank_values = after.rank_values,
                                  !.writes = after.writes]
    /\ UNCHANGED <<call, result>>

RankExit ==
    /\ frame.pc = "rank"
    /\ ~(frame.i < Len(frame.combined))
    /\ frame' = [frame EXCEPT !.pc = "ranked"]
    /\ UNCHANGED <<call, result>>

URest ==
    /\ frame.pc = "ranked"
    /\ result' = u_test_ranked(frame.combined, frame.rank_values, call.alpha, call.tail,
                               call.dist)
    /\ frame' = Idle
    /\ UNCHANGED call

\* the passes of the rank loop, from its entry to its exit
RankLoop == RankEnter \/ RankIterate \/ RankExit

NextRank == URejectEmpty \/ RankLoop \/ URest

\* the code inside the loop runs on: a pass that can be taken is taken
SpecRank == InitU /\ [][NextRank]_vars /\ WF_vars(RankLoop)

Returned == result # Pending

(* ======================= properties of the results ====================== *)

\* C1: every test that returns a result sets reject_null to exactly
\* (p_value < alpha), for the alpha the caller passed; the relabelled result
\* of the paired t-test included.
C1_RejectIffPBelowAlpha ==
    result.ok =>
        /\ result.reject_null \in BOOLEAN
        /\ result.reject_null <=>
               (result.p_value.k # "nan" /\ result.p_value.v + 1 <= call.alpha)

\* a paired t-test relabelled for two means whose p-value equals alpha: not rejected
C1_Witness ==
    /\ call.op = "t_test_paired"
    /\ result.ok
    /\ result.null_hypothesis = TwoMeanH0(call.tail)
    /\ result.p_value = Prob(call.alpha)
    /\ result.reject_null = FALSE

\* C2: the p-value of a returned result lies in [0, 1], whatever the tail and
\* the statistic, the chi-square variance test with each of its three tails
\* included.
C2_PValueInUnitInterval ==
    (result.ok /\ result.p_value.k = "fin") =>
        (0 <= result.p_value.v /\ result.p_value.v <= One)

\* C3: for two non-empty groups the U statistics of the Mann-Whitney test add
\* up to n1 * n2, ties within and across the groups included.
C3_USumIsProduct ==
    (call.op = "u_test" /\ result.ok) =>
        /\ RAdd(UStat(call.data1, call.data2, 1), UStat(call.data1, call.data2, 2))
               = <<Len(call.data1) * Len(call.data2), 1>>
        /\ result.test_statistic \in
               {FromRat(UStat(call.data1, call.data2, g)) : g \in {1, 2}}

\* a returned U test on groups with a tie inside the first group and a tie
\* across the groups
C3_Witness ==
    /\ call.op = "u_test"
    /\ result.ok
    /\ Len(call.data1) = 2
    /\ call.data1[1] = call.data1[2]
    /\ \E j \in 1 .. Len(call.data2) : call.data2[j] = call.data1[1]
    /\ \E j \in 1 .. Len(call.data2) : call.data2[j] # call.data1[1]

\* C4: with F the CDF of the reference distribution and s the statistic, the
\* p-value is F(s) for the left tail, 1 - F(s) for the right tail and
\* 2 * (1 - F(|s|)) for two tails, so the two-tailed p-value is twice the
\* right-tailed p-value of |s|.
C4_TailFormulas ==
    (result.ok /\ call.op # "u_test") =>
        LET tail == IF call.op \in {"anova", "independence", "goodness_of_fit"}
                    THEN "Right" ELSE call.tail
            s == result.test_statistic
            F == cdf(call.dist, s)
            FAbs == cdf(call.dist, [s EXCEPT !.s = IF s.s < 0 THEN -s.s ELSE s.s])
            right_of_abs ==
                calculate_p([s EXCEPT !.s = IF s.s < 0 THEN -s.s ELSE s.s], "Right",
                            call.dist)
        IN  /\ tail = "Left" => result.p_value = F
            /\ tail = "Right" =>
                   result.p_value =
                       (IF F.k = "nan" THEN PNaN ELSE [k |-> "fin", v |-> One - F.v])
            /\ tail = "Two" =>
                   /\ result.p_value =
                          (IF FAbs.k = "nan" THEN PNaN
                           ELSE [k |-> "fin", v |-> 2 * (One - FAbs.v)])
                   /\ result.p_value =
                          (IF right_of_abs.k = "nan" THEN PNaN
                           ELSE [k |-> "fin", v |-> 2 * right_of_abs.v])

\* a two-tailed one-sample t-test whose statistic is below zero and whose
\* p-value is neither 0 nor 1
C4_Witness ==
    /\ call.op = "t_test"
    /\ result.ok
    /\ call.tail = "Two"
    /\ Class(result.test_statistic) = "neg"
    /\ result.p_value.k = "fin"
    /\ 0 < result.p_value.v /\ result.p_value.v < One

\* C5: exchanging the two samples of an independent two-sample test (and the
\* two known deviations of the z-test with them) negates the statistic and
\* leaves the two-tailed p-value as it was; the exchanged call gets the same
\* reference distribution and fails exactly when the original fails.
C5_SwapNegatesStatistic ==
    (Returned /\ call.op \in {"t_test_ind", "z_test_ind", "prop_z_test_ind"}) =>
        LET swapped ==
                CASE call.op = "t_test_ind" ->
                         t_test_ind(call.data2, call.data1, call.tail, call.alpha,
                                    call.pooled, call.dist)
                  [] call.op = "z_test_ind" ->
                         z_test_ind(call.data2, call.data1, call.pop_std2, call.pop_std1,
                                    call.tail, call.alpha, call.dist)
                  [] call.op = "prop_z_test_ind" ->
                         prop_z_test_ind(call.data2, call.data1, call.tail, call.alpha,
                                         call.pooled, call.dist)
        IN  /\ swapped.ok = result.ok
            /\ (call.op = "t_test_ind" /\ result.ok) =>
                   IndDf(call.data2, call.data1, call.pooled)
                       = IndDf(call.data1, call.data2, call.pooled)
            /\ result.ok =>
                   /\ swapped.test_statistic.k = result.test_statistic.k
                   /\ swapped.test_statistic.q = result.test_statistic.q
                   /\ swapped.test_statistic.s + result.test_statistic.s = 0
                   /\ call.tail = "Two" => swapped.p_value = result.p_value

\* a two-tailed Welch t-test on samples of unlike variances and a statistic
\* that is a number other than zero
C5_Witness ==
    /\ call.op = "t_test_ind"
    /\ result.ok
    /\ call.tail = "Two"
    /\ ~call.pooled
    /\ SampleVar(call.data1) # SampleVar(call.data2)
    /\ Class(result.test_statistic) \in {"pos", "neg"}

\* C6: for samples that are not empty, the confidence interval of the t-,
\* z-, proportion and variance tests has lower <= point estimate <= upper,
\* the point estimate being the sample mean, the mean difference, the sample
\* proportion, the difference of proportions or the sample variance.
C6_IntervalBracketsEstimate ==
    (/\ result.ok
     /\ call.op \in {"t_test", "t_test_paired", "t_test_ind", "z_test", "z_test_paired",
                     "z_test_ind", "prop_z_test", "prop_z_test_ind", "variance"}
     /\ call.op \in {"t_test", "z_test", "prop_z_test", "variance"} => call.data # <<>>
     /\ call.op \notin {"t_test", "z_test", "prop_z_test", "variance"} =>
            (call.data1 # <<>> /\ call.data2 # <<>>)) =>
        LET estimate ==
                CASE call.op \in {"t_test", "z_test", "prop_z_test"} -> Mean(call.data)
                  [] call.op \in {"t_test_paired", "z_test_paired"} ->
                         Mean(Differences(call.data1, call.data2))
                  [] call.op \in {"t_test_ind", "z_test_ind", "prop_z_test_ind"} ->
                         RSub(Mean(call.data1), Mean(call.data2))
                  [] call.op = "variance" -> SampleVar(call.data)
            lower == result.confidence_interval[1]
            upper == result.confidence_interval[2]
            \* the signed root s * sqrt(q) is at most the rational d
            RootLeq(m, d) ==
                CASE m.k = "nan" -> FALSE
                  [] m.k = "inf" -> m.s < 0
                  [] m.k = "fin" ->
                         IF m.s <= 0 THEN RSgn(d) >= 0 \/ RLeq(RMul(d, d), m.q)
                         ELSE RSgn(d) >= 0 /\ RLeq(m.q, RMul(d, d))
            \* the rational d is at most the signed root s * sqrt(q)
            RootGeq(m, d) ==
                CASE m.k = "nan" -> FALSE
                  [] m.k = "inf" -> m.s > 0
                  [] m.k = "fin" ->
                         IF m.s >= 0 THEN RSgn(d) <= 0 \/ RLeq(RMul(d, d), m.q)
                         ELSE RSgn(d) <= 0 /\ RLeq(m.q, RMul(d, d))
        IN  /\ RootLeq(lower.m, RSub(estimate, lower.c))
            /\ RootGeq(upper.m, RSub(estimate, upper.c))

\* C7: one-way ANOVA on two or more non-empty groups, each made of identical
\* values, with observations left over for the within-group degrees of
\* freedom, fails with ComputeError; it returns no result.
C7_ConstantGroupsFail ==
    (/\ Returned
     /\ call.op = "anova"
     /\ Len(call.data_groups) >= 2
     /\ \A g \in 1 .. Len(call.data_groups) :
            /\ call.data_groups[g] # <<>>
            /\ \A i \in 1 .. Len(call.data_groups[g]) : call.data_groups[g][i] = call.data_groups[g][1]
     /\ Len(Flatten(call.data_groups)) > Len(call.data_groups)) =>
        result = [ok |-> FALSE, err |-> "ComputeError"]

\* ANOVA failed on groups of identical values whose means differ
C7_Witness ==
    /\ call.op = "anova"
    /\ result = [ok |-> FALSE, err |-> "ComputeError"]
    /\ Len(call.data_groups) >= 2
    /\ \A g \in 1 .. Len(call.data_groups) :
           /\ Len(call.data_groups[g]) >= 2
           /\ \A i \in 1 .. Len(call.data_groups[g]) : call.data_groups[g][i] = call.data_groups[g][1]
    /\ call.data_groups[1][1] # call.data_groups[2][1]

C9_ZeroStdErrorFails ==
    LET Constant(s) == Len(s) >= 2 /\ \A i \in 1 .. Len(s) : s[i] = s[1]
    IN  /\ (Returned /\ call.op = "t_test" /\ Constant(call.data)) =>
                result = [ok |-> FALSE, err |-> "ComputeError"]
        /\ (Returned /\ call.op = "t_test_paired" /\ Len(call.data1) = Len(call.data2)
                /\ Constant(Differences(call.data1, call.data2))) =>
                result = [ok |-> FALSE, err |-> "ComputeError"]
        /\ (Returned /\ call.op = "t_test_ind" /\ Constant(call.data1)
                /\ Constant(call.data2)) =>
                result = [ok |-> FALSE, err |-> "ComputeError"]

\* C10: the two-sample proportion z-test on two non-empty samples fails when
\* its standard error is zero: pooled, with every observation of both samples
\* a success or every one a failure; unpooled, with each sample's proportion
\* equal to 0 or 1.
C10_ProportionZeroStdErrorFails ==
    LET AllEqual(s, v) == \A i \in 1 .. Len(s) : s[i] = v
    IN  (/\ Returned
         /\ call.op = "prop_z_test_ind"
         /\ call.data1 # <<>> /\ call.data2 # <<>>
         /\ IF call.pooled
            THEN \E v \in {0, 1} : AllEqual(call.data1, v) /\ AllEqual(call.data2, v)
            ELSE /\ \E v \in {0, 1} : AllEqual(call.data1, v)
                 /\ \E v \in {0, 1} : AllEqual(call.data2, v)) =>
            ~result.ok

\* C11: the one-sample proportion z-test takes its standard error from the
\* hypothesized proportion p0 and n alone: the interval is centred on the
\* sample proportion, its half-width is q(1 - alpha/2) * sqrt(p0 (1 - p0) / n)
\* whatever the data of that length, and with p0 equal to 0 or 1 and data
\* that is not empty the call fails with ComputeError.
C11_StdErrorFromHypothesizedProportion ==
    (/\ Returned
     /\ call.op = "prop_z_test"
     /\ call.data # <<>>
     /\ RLeq(<<0, 1>>, call.pop_proportion) /\ RLeq(call.pop_proportion, <<1, 1>>)) =>
        LET p0 == call.pop_proportion
            half ==
                FMul(FromRat(inverse_cdf(call.dist,
                                         RSub(<<1, 1>>, RDiv(AlphaRat(call.alpha), <<2, 1>>)))),
                     FSqrt(RDiv(RMul(p0, RSub(<<1, 1>>, p0)), <<Len(call.data), 1>>)))
        IN  IF p0 \in {<<0, 1>>, <<1, 1>>}
            THEN result = [ok |-> FALSE, err |-> "ComputeError"]
            ELSE /\ result.ok
                 /\ result.confidence_interval[1].c = Mean(call.data)
                 /\ result.confidence_interval[2].c = Mean(call.data)
                 /\ result.confidence_interval[2].m = half
                 /\ result.confidence_interval[1].m = [half EXCEPT !.s = -half.s]
                 /\ \A other \in BinarySamples :
                        Len(other) = Len(call.data) =>
                            prop_z_test(other, p0, call.tail, call.alpha, call.dist)
                                .confidence_interval[2].m
                                = result.confidence_interval[2].m

\* a returned test on data made of successes only, against p0 = 1/2
C11_Witness ==
    /\ call.op = "prop_z_test"
    /\ result.ok
    /\ call.pop_proportion = <<1, 2>>
    /\ Len(call.data) >= 2
    /\ \A i \in 1 .. Len(call.data) : call.data[i] = 1
    /\ Class(result.confidence_interval[2].m) = "pos"

\* C12: t_test fails with EmptyData on no observation and with
\* InsufficientData on exactly one; t_test_ind fails with EmptyData if either
\* sample is empty and otherwise with InsufficientData if either sample has
\* fewer than two observations; samples of two or more get neither error.
C12_TTestSizeErrors ==
    /\ (Returned /\ call.op = "t_test") =>
           /\ Len(call.data) = 0 => result = [ok |-> FALSE, err |-> "EmptyData"]
           /\ Len(call.data) = 1 => result = [ok |-> FALSE, err |-> "InsufficientData"]
           /\ Len(call.data) >= 2 =>
                  (result.ok \/ result.err \notin {"EmptyData", "InsufficientData"})
    /\ (Returned /\ call.op = "t_test_ind") =>
           IF Len(call.data1) = 0 \/ Len(call.data2) = 0
           THEN result = [ok |-> FALSE, err |-> "EmptyData"]
           ELSE IF Len(call.data1) = 1 \/ Len(call.data2) = 1
                THEN result = [ok |-> FALSE, err |-> "InsufficientData"]
                ELSE result.ok \/ result.err \notin {"EmptyData", "InsufficientData"}

\* t_test_ind on an empty sample and a sample of one observation: EmptyData
C12_Witness ==
    /\ call.op = "t_test_ind"
    /\ Len(call.data1) = 0
    /\ Len(call.data2) = 1
    /\ result = [ok |-> FALSE, err |-> "EmptyData"]

\* C13: t_test_paired and z_test_paired (given a positive deviation) fail with
\* EmptyData whenever either sample is empty, whether or not the other is.
C13_PairedEmptyData ==
    (/\ Returned
     /\ call.op \in {"t_test_paired", "z_test_paired"}
     /\ call.op = "z_test_paired" => call.pop_std > 0
     /\ (call.data1 = <<>> \/ call.data2 = <<>>)) =>
        result = [ok |-> FALSE, err |-> "EmptyData"]

\* C14: on samples of equal length t_test_paired returns the statistic,
\* p-value, interval and decision of t_test on the element-wise differences
\* against 0, with the two hypothesis texts in the mu1/mu2 phrasing, and
\* z_test_paired returns the four numbers of z_test on the differences
\* against 0 with the same deviation; samples of unequal length give an error.
C14_PairedIsOneSampleOnDifferences ==
    (Returned /\ call.op \in {"t_test_paired", "z_test_paired"}) =>
        LET a == call.data1
            b == call.data2
            d == [i \in 1 .. Len(a) |-> a[i] - b[i]]
            one == IF call.op = "t_test_paired"
                   THEN t_test(d, 0, call.tail, call.alpha, call.dist)
                   ELSE z_test(d, 0, call.pop_std, call.tail, call.alpha, call.dist)
        IN  IF Len(a) # Len(b) THEN ~result.ok
            ELSE IF ~one.ok THEN result = one
            ELSE /\ result.ok
                 /\ result.test_statistic = one.test_statistic
                 /\ result.p_value = one.p_value
                 /\ result.confidence_interval = one.confidence_interval
                 /\ result.reject_null = one.reject_null
                 /\ result.null_hypothesis =
                        (CASE call.tail = "Left" -> <<"H0: mu1 >= mu2">>
                           [] call.tail = "Right" -> <<"H0: mu1 <= mu2">>
                           [] call.tail = "Two" -> <<"H0: mu1 = mu2">>)
                 /\ result.alt_hypothesis =
                        (CASE call.tail = "Left" -> <<"Ha: mu1 < mu2">>
                           [] call.tail = "Right" -> <<"Ha: mu1 > mu2">>
                           [] call.tail = "Two" -> <<"Ha: mu1 != mu2">>)

\* a returned paired z-test whose differences are unlike and whose statistic
\* is below zero
C14_Witness ==
    /\ call.op = "z_test_paired"
    /\ result.ok
    /\ Len(call.data1) = 2
    /\ call.data1[1] - call.data2[1] # call.data1[2] - call.data2[2]
    /\ Class(result.test_statistic) = "neg"

\* C15: anova fails with ComputeError on fewer than two groups, with
\* EmptyData when one of two or more groups is empty, and with ComputeError
\* when N - k <= 0, which is when every group holds exactly one observation;
\* on every other input whose within-group mean square is not zero (some
\* group holds two unlike values) it returns a result.
C15_AnovaErrors ==
    (Returned /\ call.op = "anova") =>
        LET groups == call.data_groups
            k == Len(groups)
            N == Len(Flatten(groups))
        IN  IF k < 2 THEN result = [ok |-> FALSE, err |-> "ComputeError"]
            ELSE IF \E g \in 1 .. k : Len(groups[g]) = 0
                 THEN result = [ok |-> FALSE, err |-> "EmptyData"]
                 ELSE /\ (N - k <= 0) <=> (\A g \in 1 .. k : Len(groups[g]) = 1)
                      /\ N - k <= 0 => result = [ok |-> FALSE, err |-> "ComputeError"]
                      /\ (\E g \in 1 .. k : \E i, j \in 1 .. Len(groups[g]) :
                              groups[g][i] # groups[g][j]) => result.ok

\* three groups of one observation each: ComputeError
C15_Witness ==
    /\ call.op = "anova"
    /\ Len(call.data_groups) = 3
    /\ \A g \in 1 .. 3 : Len(call.data_groups[g]) = 1
    /\ result = [ok |-> FALSE, err |-> "ComputeError"]

\* C16: independence returns an error whenever the table has fewer than two
\* rows, fewer than two columns, rows of unequal length, or a total frequency
\* that is not greater than zero.
C16_IndependenceRejectsBadTables ==
    (/\ Returned
     /\ call.op = "independence"
     /\ LET t == call.contingency_table
        IN  \/ Len(t) < 2
            \/ Len(t[1]) < 2
            \/ \E i \in 1 .. Len(t) : Len(t[i]) # Len(t[1])
            \/ SumSeq(Flatten(t)) <= 0) =>
        ~result.ok

C18_GoodnessOfFitRejectsZeroExpected ==
    (/\ Returned
     /\ call.op = "goodness_of_fit"
     /\ \/ Len(call.observed) # Len(call.expected)
        \/ Len(call.observed) < 2
        \/ \E i \in 1 .. Len(call.expected) : call.expected[i] = 0) =>
        ~result.ok

\* C19: with a strictly increasing normal CDF, when every value of data1 is
\* greater than every value of data2 the right-tailed p-value of u_test is
\* smaller than the left-tailed one, and when every value of data1 is smaller
\* the left-tailed p-value is the smaller one.
C19_UTestTailFollowsFirstGroup ==
    (/\ Returned
     /\ call.op = "u_test"
     /\ call.data1 # <<>> /\ call.data2 # <<>>
     /\ call.dist.c > PHalf) =>
        LET left == u_test(call.data1, call.data2, call.alpha, "Left", call.dist).p_value
            right == u_test(call.data1, call.data2, call.alpha, "Right", call.dist).p_value
        IN  /\ (\A i \in 1 .. Len(call.data1) : \A j \in 1 .. Len(call.data2) :
                    call.data1[i] > call.data2[j]) => right.v < left.v
            /\ (\A i \in 1 .. Len(call.data1) : \A j \in 1 .. Len(call.data2) :
                    call.data1[i] < call.data2[j]) => left.v < right.v

C21_NoIntervalIsNaN ==
    (/\ Returned
     /\ call.op \in {"anova", "independence", "goodness_of_fit", "u_test"}
     /\ result.ok) =>
        /\ Len(result.confidence_interval) = 2
        /\ result.confidence_interval[1].m.k = "nan"
        /\ result.confidence_interval[2].m.k = "nan"

\* a goodness-of-fit test that rejects, and has no interval
C21_Witness ==
    /\ call.op = "goodness_of_fit"
    /\ result.ok
    /\ result.reject_null
    /\ result.confidence_interval[1].m.k = "nan"
    /\ result.confidence_interval[2].m.k = "nan"

C23_AnovaFStatistic ==
    (Returned /\ call.op = "anova" /\ result.ok) =>
        LET groups == call.data_groups
            k == Len(groups)
            all == Flatten(groups)
            N == Len(all)
            sum_sq == SumSeq([j \in 1 .. N |-> all[j] * all[j]])
            corrected ==
                RSumSeq([g \in 1 .. k |->
                           Rat(SumSeq(groups[g]) * SumSeq(groups[g]), Len(groups[g]))])
            SSB == RSub(corrected, Rat(SumSeq(all) * SumSeq(all), N))
            SSW == RSub(RInt(sum_sq), corrected)
            F == RDiv(RDiv(SSB, RInt(k - 1)), RDiv(SSW, RInt(N - k)))
        IN  /\ result.test_statistic = FromRat(F)
            /\ result.null_hypothesis =
                   <<"H0: mu", 1>> \o [j \in 1 .. 2 * (k - 1) |->
                                         IF j % 2 = 1 THEN " = mu" ELSE (j \div 2) + 1]
            /\ groups = ScenarioGroups =>
                   /\ F = <<98, 23>>
                   /\ RLess(Rat(4260, 1000), F) /\ RLess(F, Rat(4262, 1000))
                   /\ result.null_hypothesis = <<"H0: mu", 1, " = mu", 2, " = mu", 3>>
            /\ groups = ScenarioGroupsNoRejection =>
                   /\ result.test_statistic = FromRat(RInt(2))
                   /\ result.null_hypothesis = <<"H0: mu", 1, " = mu", 2, " = mu", 3>>

\* the first scenario returned its F statistic 98/23
C23_Witness ==
    /\ call.op = "anova"
    /\ call.data_groups = ScenarioGroups
    /\ result.ok
    /\ result.test_statistic = FromRat(<<98, 23>>)

C27_PooledEqualsWelchOnEqualSizes ==
    (/\ Returned
     /\ call.op = "t_test_ind"
     /\ Len(call.data1) = Len(call.data2)
     /\ Len(call.data1) >= 2) =>
        LET pooled == t_test_ind(call.data1, call.data2, call.tail, call.alpha, TRUE,
                                 call.dist)
            welch == t_test_ind(call.data1, call.data2, call.tail, call.alpha, FALSE,
                                call.dist)
        IN  /\ IndStdError(call.data1, call.data2, TRUE)
                   = IndStdError(call.data1, call.data2, FALSE)
            /\ IndDf(call.data1, call.data2, TRUE)
                   = FromRat(RInt(Len(call.data1) + Len(call.data2) - 2))
            /\ pooled.ok
            /\ welch.ok
            /\ pooled.test_statistic = welch.test_statistic

\* C25: in the combined sample sorted by value every element of a maximal run
\* of equal values, of whichever group, has the rank
\* (first_position + last_position) / 2 with 1-indexed positions, an element
\* that is not tied has its own position, and no run is split or merged with a
\* neighbouring run; the reported statistic comes from these ranks.
C25_MidRanksOfMaximalRuns ==
    (Returned /\ call.op = "u_test" /\ result.ok) =>
        LET combined == SortByValue(Combine(call.data1, call.data2))
            N == Len(combined)
            rank_values == RankValues(combined)
            Run(j) == {i \in 1 .. N : combined[i][1] = combined[j][1]}
            First(j) == CHOOSE i \in Run(j) : \A h \in Run(j) : i <= h
            Last(j) == CHOOSE i \in Run(j) : \A h \in Run(j) : h <= i
            MidRank(j) == Rat(First(j) + Last(j), 2)
            U(group, n) ==
                RSub(RSumSeq([j \in 1 .. N |->
                                IF combined[j][2] = group THEN MidRank(j) ELSE RInt(0)]),
                     Rat(n * (n + 1), 2))
            U1 == U(1, Len(call.data1))
            U2 == U(2, Len(call.data2))
        IN  /\ N = Len(call.data1) + Len(call.data2)
            /\ \A j \in 1 .. N - 1 : combined[j][1] <= combined[j + 1][1]
            /\ \A j \in 1 .. N :
                   /\ Run(j) = First(j) .. Last(j)
                   /\ rank_values[j] = MidRank(j)
                   /\ Run(j) = {j} => rank_values[j] = RInt(j)
            /\ \A i, j \in 1 .. N :
                   (combined[i][1] # combined[j][1]) => rank_values[i] # rank_values[j]
            /\ result.test_statistic = FromRat(IF RLeq(U1, U2) THEN U1 ELSE U2)

\* the scenario has ranks 1, 2, 3.5, 3.5, 5.5, 5.5, 7.5, 7.5, 9, 10
C25_Witness ==
    /\ call.op = "u_test"
    /\ call.data1 = ScenarioRanks1
    /\ call.data2 = ScenarioRanks2
    /\ result.ok
    /\ RankValues(SortByValue(Combine(call.data1, call.data2)))
           = <<<<1, 1>>, <<2, 1>>, <<7, 2>>, <<7, 2>>, <<11, 2>>, <<11, 2>>,
               <<15, 2>>, <<15, 2>>, <<9, 1>>, <<10, 1>>>>

\* C26: for every combined sample of length N = n1 + n2 and every pattern of
\* ties the mid-ranks sum to N(N+1)/2: rank_sum1 + rank_sum2 = N(N+1)/2.
C26_RankSumTotal ==
    (Returned /\ call.op = "u_test" /\ result.ok) =>
        LET combined == SortByValue(Combine(call.data1, call.data2))
            N == Len(call.data1) + Len(call.data2)
            rank_values == RankValues(combined)
            rank_sum1 == RankSum(combined, rank_values, 1)
            rank_sum2 == RankSum(combined, rank_values, 2)
        IN  /\ RAdd(rank_sum1, rank_sum2) = Rat(N * (N + 1), 2)
            /\ RSumSeq(rank_values) = Rat(N * (N + 1), 2)

\* a sample with a tie across the groups and one inside a group
C26_Witness ==
    /\ call.op = "u_test"
    /\ call.data1 = <<0, 0>>
    /\ call.data2 = <<0, 1>>
    /\ result.ok
    /\ RankSum(SortByValue(Combine(call.data1, call.data2)),
               RankValues(SortByValue(Combine(call.data1, call.data2))), 1) = RInt(4)

C29_RankLoopTerminates ==
    /\ [][(frame.pc = "rank" /\ frame'.pc = "rank") => frame'.i > frame.i]_vars
    /\ [](frame.pc = "rank" =>
             LET N == Len(frame.combined)
             IN  /\ frame.i <= N
                 /\ \A j \in 1 .. N :
                        frame.writes[j] = (IF j <= frame.i THEN 1 ELSE 0))
    /\ [](frame.pc = "ranked" =>
             LET N == Len(frame.combined)
             IN  /\ frame.i = N
                 /\ \A j \in 1 .. N : frame.writes[j] = 1
                 /\ frame.rank_values = RankValues(frame.combined)
                 /\ \A j \in 1 .. N :
                        /\ RLeq(RInt(1), frame.rank_values[j])
                        /\ RLeq(frame.rank_values[j], RInt(N))
                 /\ \A j \in 1 .. N - 1 :
                        RLeq(frame.rank_values[j], frame.rank_values[j + 1])
                 /\ \A h, j \in 1 .. N :
                        (frame.rank_values[h] = frame.rank_values[j])
                           <=> (frame.combined[h][1] = frame.combined[j][1]))
    /\ [](Returned =>
             result = u_test(call.data1, call.data2, call.alpha, call.tail, call.dist))
    /\ (frame.pc = "rank") ~> (frame.pc = "ranked")

\* the loop at its exit on the 10-element scenario, after 7 passes
C29_Witness ==
    /\ call.op = "u_test"
    /\ call.data1 = ScenarioRanks1
    /\ call.data2 = ScenarioRanks2
    /\ frame.pc = "ranked"
    /\ frame.i = 10
    /\ frame.rank_values[10] = RInt(10)
    /\ \A j \in 1 .. 10 : frame.writes[j] = 1

\* C30: when several preconditions fail at once the error is that of the first
\* check: the z tests report a non-positive population standard deviation
\* (ComputeError) even for empty data; the proportion z_test reports an
\* out-of-range proportion (ComputeError) before EmptyData; anova reports
\* fewer than 2 groups (ComputeError) before an empty group; t_test_ind
\* reports EmptyData before InsufficientData; z_test_paired reports EmptyData
\* before a length mismatch; goodness_of_fit reports a length mismatch before
\* too few categories.
C30_FirstFailedCheckWins ==
    Returned =>
        /\ (call.op = "z_test" /\ call.pop_std <= 0 /\ call.data = <<>>) =>
               result = [ok |-> FALSE, err |-> "ComputeError"]
        /\ (call.op = "z_test_paired" /\ call.pop_std <= 0
               /\ (call.data1 = <<>> \/ call.data2 = <<>>)) =>
               result = [ok |-> FALSE, err |-> "ComputeError"]
        /\ (call.op = "z_test_ind" /\ (call.pop_std1 <= 0 \/ call.pop_std2 <= 0)
               /\ (call.data1 = <<>> \/ call.data2 = <<>>)) =>
               result = [ok |-> FALSE, err |-> "ComputeError"]
        /\ (call.op = "prop_z_test" /\ call.data = <<>>
               /\ (RLess(call.pop_proportion, RInt(0))
                      \/ RLess(RInt(1), call.pop_proportion))) =>
               result = [ok |-> FALSE, err |-> "ComputeError"]
        /\ (call.op = "anova" /\ Len(call.data_groups) < 2
               /\ \E g \in 1 .. Len(call.data_groups) : call.data_groups[g] = <<>>) =>
               result = [ok |-> FALSE, err |-> "ComputeError"]
        /\ (call.op = "t_test_ind"
               /\ (call.data1 = <<>> \/ call.data2 = <<>>)
               /\ (Len(call.data1) < 2 \/ Len(call.data2) < 2)) =>
               result = [ok |-> FALSE, err |-> "EmptyData"]
        /\ (call.op = "z_test_paired" /\ call.pop_std > 0
               /\ (call.data1 = <<>> \/ call.data2 = <<>>)
               /\ Len(call.data1) # Len(call.data2)) =>
               result = [ok |-> FALSE, err |-> "EmptyData"]
        /\ (call.op = "goodness_of_fit"
               /\ Len(call.observed) # Len(call.expected)
               /\ Len(call.observed) < 2) =>
               result = [ok |-> FALSE, err |-> "ComputeError",
                         msg |-> "Observed and expected lengths must match"]

\* one observed category against no expected one: the lengths are reported
C30_Witness ==
    /\ call.op = "goodness_of_fit"
    /\ Len(call.observed) = 1
    /\ call.expected = <<>>
    /\ result = [ok |-> FALSE, err |-> "ComputeError",
                 msg |-> "Observed and expected lengths must match"]

====
